---- MODULE Spec2Model ----
(***************************************************************************)
(* Model of src/src/main.rs: the Wi-Fi association loop, the wait for the  *)
(* DHCP configuration, and the single request/response exchange over the   *)
(* TCP socket.  The main task is modelled with one position per await     *)
(* point; an action is the completion of the pending await followed by the *)
(* synchronous code up to the next await.  The network stack task          *)
(* (net_task) and the remote peer act only while main is suspended.        *)
(***************************************************************************)
EXTENDS Integers, Sequences, FiniteSets, TLC

\* ---------------------------------------------------------------- constants

\* main.rs:44
CONNECT_ATTEMPTS == 10
\* main.rs:45
RETRY_DELAY_MS == 5000
\* main.rs:162, rx_buffer = [0; 4096]
RxBufferLen == 4096
\* main.rs:163, tx_buffer = [0; 4096]
TxBufferLen == 4096
\* main.rs:181, response = [0; 512]
ResponseLen == 512
\* main.rs:172, length of b"GET / HTTP/1.0\r\nHost: www.mobile-j.de\r\n\r\n"
RequestLen == 41

\* The total timeout the address wait is specified to have, in clock ticks
\* of 30000 ms (90000 ms); the clock of the model runs one tick past it.
TotalTimeout == 3
MaxWait == TotalTimeout + 1

\* Addresses the DHCP server may lease (10.0.0.2, 10.0.0.3 as 32-bit values).
Addrs == {167772162, 167772163}

\* Byte patterns the peer's response repeats (stream byte i is
\* pattern[((i-1) % Len) + 1]): ASCII, 2-, 3- and 4-byte UTF-8 sequences, and
\* three ill-formed ones (0xFF, a surrogate, an overlong encoding).
Patterns ==
  << <<72, 84, 84, 80>>,
     <<195, 169>>,
     <<226, 130, 172>>,
     <<240, 159, 152, 128>>,
     <<255>>,
     <<237, 160, 128>>,
     <<192, 128>> >>

\* The TCP segments the peer's response arrives in (lengths in bytes).
Segmentations == { <<3>>, <<37>>, <<512>>, <<600>>, <<100, 500>>, <<511, 2>> }

NoPeer == [pat |-> 0, segs |-> <<>>]

VARIABLES
  pc,        \* the await point main is suspended at
  attempts,  \* main.rs:106
  link,      \* the stack's IPv4 configuration: Down, Acquiring or Up(address)
  woken,     \* main's waker has been signalled since its last poll
  waited,    \* clock ticks spent suspended in wait_config_up
  ipAddr,    \* config_v4 as read at main.rs:153 (0: not read, -1: None)
  sock,      \* TCP socket state: "closed", "established", "fin", "reset"
  peer,      \* the response the peer sends: pattern index and segments
  delivered, \* segments of the response received into rx_buffer
  size,      \* result of socket.read: -2 not returned, -1 Err, else Ok(size)
  trace      \* operations issued, their results and the lines printed, in order

vars == <<pc, attempts, link, woken, waited, ipAddr, sock, peer, delivered, size, trace>>

\* ------------------------------------------------------------------ helpers

Min(a, b) == IF a <= b THEN a ELSE b

Op(name, arg) == <<"op", name, arg>>
Ok(name, arg) == <<"ok", name, arg>>
Err(name, arg) == <<"err", name, arg>>
Log(name, arg) == <<"log", name, arg>>

\* LinkState values
Down == [st |-> "Down", addr |-> 0]
Acquiring == [st |-> "Acquiring", addr |-> 0]
Up(a) == [st |-> "Up", addr |-> a]
IsUp(l) == l.st = "Up"

RECURSIVE SumTo(_, _)
SumTo(s, n) == IF n = 0 THEN 0 ELSE s[n] + SumTo(s, n - 1)

\* Bytes held by the socket's receive buffer (nothing is consumed before the
\* single read); the TCP window never lets it exceed the buffer.
RxLen == Min(SumTo(peer.segs, delivered), RxBufferLen)

\* Byte i (1-based) of the peer's response stream.
StreamByte(i) ==
  LET p == Patterns[peer.pat] IN p[((i - 1) % Len(p)) + 1]

\* Byte i (1-based) of the response array after a read that stored sz bytes:
\* the array starts zeroed (main.rs:181) and the read fills its first sz bytes.
ResponseByte(i, sz) == IF i <= sz THEN StreamByte(i) ELSE 0

\* ------------------------------------------------- core::str::from_utf8

IsCont(b) == b >= 128 /\ b <= 191

\* UTF8_CHAR_WIDTH: the length of the sequence a first byte announces, 0 for
\* a byte that cannot start one.
Utf8CharWidth(b) ==
  IF b < 128 THEN 1
  ELSE IF b >= 194 /\ b <= 223 THEN 2
  ELSE IF b >= 224 /\ b <= 239 THEN 3
  ELSE IF b >= 240 /\ b <= 244 THEN 4
  ELSE 0

\* One byte of run_utf8_validation.  The state is what the validator expects
\* next: "S" a first byte; "C1", "C2", "C3" that many continuation bytes;
\* "E0", "ED", "F0", "F4" the restricted second byte of a sequence starting
\* with that byte; "X" the input is rejected.
Utf8Step(st, b) ==
  IF st = "S" THEN
    LET w == Utf8CharWidth(b) IN
      IF w = 1 THEN "S"
      ELSE IF w = 2 THEN "C1"
      ELSE IF w = 3 THEN
        IF b = 224 THEN "E0" ELSE IF b = 237 THEN "ED" ELSE "C2"
      ELSE IF w = 4 THEN
        IF b = 240 THEN "F0" ELSE IF b = 244 THEN "F4" ELSE "C3"
      ELSE "X"
  ELSE IF st = "C1" THEN IF IsCont(b) THEN "S" ELSE "X"
  ELSE IF st = "C2" THEN IF IsCont(b) THEN "C1" ELSE "X"
  ELSE IF st = "C3" THEN IF IsCont(b) THEN "C2" ELSE "X"
  ELSE IF st = "E0" THEN IF b >= 160 /\ b <= 191 THEN "C1" ELSE "X"
  ELSE IF st = "ED" THEN IF b >= 128 /\ b <= 159 THEN "C1" ELSE "X"
  ELSE IF st = "F0" THEN IF b >= 144 /\ b <= 191 THEN "C2" ELSE "X"
  ELSE IF st = "F4" THEN IF b >= 128 /\ b <= 143 THEN "C2" ELSE "X"
  ELSE "X"

\* The validator's state after bytes i..j of the response array, from state
\* st (the range is halved to keep the evaluation shallow).
RECURSIVE Utf8Run(_, _, _, _)
Utf8Run(st, i, j, sz) ==
  IF st = "X" \/ i > j THEN st
  ELSE IF i = j THEN Utf8Step(st, ResponseByte(i, sz))
  ELSE LET m == (i + j) \div 2
       IN Utf8Run(Utf8Run(st, i, m, sz), m + 1, j, sz)

\* core::str::from_utf8(&response[..n]).is_ok()
from_utf8(n, sz) == Utf8Run("S", 1, n, sz) = "S"

\* --------------------------------------------------------------------- Init

Init ==
  /\ pc = "start"
  /\ attempts = 0
  /\ link = Down
  /\ woken = FALSE
  /\ waited = 0
  /\ ipAddr = 0
  /\ sock = "closed"
  /\ peer = NoPeer
  /\ delivered = 0
  /\ size = -2
  /\ trace = <<>>

\* ------------------------------------------------------- association loop

\* main.rs:108-111: attempts += 1, the "Attempt" line, controller.connect().
IssueConnect(n) ==
  <<Log("Attempt", n), Op("assoc_request", n)>>

\* StartLoop that waits the retry delay before the first request.
StartLoopDelayFirst ==
  /\ pc = "start"
  /\ trace' = trace \o <<Op("retry_delay", RETRY_DELAY_MS)>>
  /\ pc' = "retry_wait"
  /\ UNCHANGED <<attempts, link, woken, waited, ipAddr, sock, peer, delivered, size>>

\* main.rs:106-111, first pass through the loop.
StartLoop ==
  /\ pc = "start"
  /\ attempts' = attempts + 1
  /\ trace' = trace \o IssueConnect(attempts + 1)
  /\ pc' = "connecting"
  /\ UNCHANGED <<link, woken, waited, ipAddr, sock, peer, delivered, size>>

\* main.rs:114-122: the line printed for controller.is_connected()'s result.
StatusLine(q) ==
  IF q = "true" THEN Log("Wi-Fi connected successfully.", 0)
  ELSE IF q = "false" THEN Log("Wi-Fi is not connected.", 0)
  ELSE Log("Error checking Wi-Fi connection status.", 0)

\* ConnectOk that takes a status other than Ok(true) for a failed request
\* and retries.
ConnectOkStrict(q) ==
  /\ pc = "connecting"
  /\ IF q = "true"
       THEN /\ trace' = trace \o <<Ok("assoc_request", attempts), StatusLine(q),
                                   Op("spawn_net_task", 0), Op("wait_config_up", 0)>>
            /\ pc' = "wait_config_up"
       ELSE /\ trace' = trace \o <<Ok("assoc_request", attempts), StatusLine(q),
                                   Op("retry_delay", RETRY_DELAY_MS)>>
            /\ pc' = "retry_wait"
  /\ woken' = FALSE
  /\ UNCHANGED <<attempts, link, waited, ipAddr, sock, peer, delivered, size>>

\* ConnectOk that starts waiting for the configuration before it spawns
\* net_task.
ConnectOkWaitFirst(q) ==
  /\ pc = "connecting"
  /\ trace' = trace \o <<Ok("assoc_request", attempts), StatusLine(q),
                         Op("wait_config_up", 0), Op("spawn_net_task", 0)>>
  /\ pc' = "wait_config_up"
  /\ woken' = FALSE
  /\ UNCHANGED <<attempts, link, waited, ipAddr, sock, peer, delivered, size>>

\* main.rs:111-123 and 135-150: controller.connect() returned Ok(()); the
\* status line, break, Stack::new, spawn of net_task, and the first poll of
\* wait_config_up, which finds the new stack unconfigured and suspends.
ConnectOk(q) ==
  /\ pc = "connecting"
  /\ trace' = trace \o <<Ok("assoc_request", attempts), StatusLine(q),
                         Op("spawn_net_task", 0), Op("wait_config_up", 0)>>
  /\ pc' = "wait_config_up"
  /\ woken' = FALSE
  /\ UNCHANGED <<attempts, link, waited, ipAddr, sock, peer, delivered, size>>

\* GiveUp with the comparison off by one.
GiveUpLate(n) == n > CONNECT_ATTEMPTS

\* main.rs:126
GiveUp(n) == n >= CONNECT_ATTEMPTS

\* ConnectErr without the retry delay: the next request is issued at once.
ConnectErrNoDelay ==
  /\ pc = "connecting"
  /\ IF GiveUp(attempts)
       THEN /\ trace' = trace \o <<Err("assoc_request", attempts),
                                   Log("Failed to connect to Wi-Fi after attempts.", CONNECT_ATTEMPTS)>>
            /\ pc' = "exhausted"
            /\ attempts' = attempts
       ELSE /\ trace' = trace \o <<Err("assoc_request", attempts)>>
                               \o IssueConnect(attempts + 1)
            /\ pc' = "connecting"
            /\ attempts' = attempts + 1
  /\ UNCHANGED <<link, woken, waited, ipAddr, sock, peer, delivered, size>>

\* ConnectErr that leaves the loop with break instead of return when the
\* attempts are used up, and so runs on to the bring-up of the stack.
ConnectErrFallThrough ==
  /\ pc = "connecting"
  /\ IF GiveUp(attempts)
       THEN /\ trace' = trace \o <<Err("assoc_request", attempts),
                                   Log("Failed to connect to Wi-Fi after attempts.", CONNECT_ATTEMPTS),
                                   Op("spawn_net_task", 0), Op("wait_config_up", 0)>>
            /\ pc' = "wait_config_up"
       ELSE /\ trace' = trace \o <<Err("assoc_request", attempts),
                                   Log("Retrying in ms...", RETRY_DELAY_MS),
                                   Op("retry_delay", RETRY_DELAY_MS)>>
            /\ pc' = "retry_wait"
  /\ UNCHANGED <<attempts, link, woken, waited, ipAddr, sock, peer, delivered, size>>

\* main.rs:111, 126-132: controller.connect() returned Err.
ConnectErr ==
  /\ pc = "connecting"
  /\ IF GiveUp(attempts)
       THEN /\ trace' = trace \o <<Err("assoc_request", attempts),
                                   Log("Failed to connect to Wi-Fi after attempts.", CONNECT_ATTEMPTS)>>
            /\ pc' = "exhausted"
       ELSE /\ trace' = trace \o <<Err("assoc_request", attempts),
                                   Log("Retrying in ms...", RETRY_DELAY_MS),
                                   Op("retry_delay", RETRY_DELAY_MS)>>
            /\ pc' = "retry_wait"
  /\ UNCHANGED <<attempts, link, woken, waited, ipAddr, sock, peer, delivered, size>>

\* RetryElapsed that does not count the new attempt.
RetryElapsedNoCount ==
  /\ pc = "retry_wait"
  /\ attempts' = attempts
  /\ trace' = trace \o IssueConnect(attempts)
  /\ pc' = "connecting"
  /\ UNCHANGED <<link, woken, waited, ipAddr, sock, peer, delivered, size>>

\* main.rs:132-133, 107-111: the timer fired; next pass through the loop.
RetryElapsed ==
  /\ pc = "retry_wait"
  /\ attempts' = attempts + 1
  /\ trace' = trace \o IssueConnect(attempts + 1)
  /\ pc' = "connecting"
  /\ UNCHANGED <<link, woken, waited, ipAddr, sock, peer, delivered, size>>

\* ------------------------------------------------------- wait_config_up

\* is_config_up taking a lease in progress for a configuration.
is_config_up_early(l) == l.st # "Down"

\* Stack::is_config_up, the condition wait_config_up polls (main.rs:150).
is_config_up(l) == IsUp(l)

\* Stack::config_v4 (main.rs:153): the leased address, -1 for None.
config_v4(l) == IF IsUp(l) THEN l.addr ELSE -1

\* main.rs:154-158
AddressLine(c) ==
  IF c # -1 THEN Log("IP Address", c) ELSE Log("Failed to obtain IP address.", 0)

\* PollConfigUp that lets a first tick of the clock pass before it looks
\* at the configuration.
PollConfigUpLate ==
  /\ pc = "wait_config_up"
  /\ woken
  /\ IF is_config_up(link) /\ waited > 0
       THEN /\ ipAddr' = config_v4(link)
            /\ trace' = trace \o <<Ok("wait_config_up", 0),
                                   AddressLine(config_v4(link)),
                                   Log("Stack IP Configuration", config_v4(link)),
                                   Log("Connected to Wi-Fi, starting main loop...", 0),
                                   Op("connect", 80)>>
            /\ pc' = "sock_connect"
            /\ woken' = FALSE
       ELSE /\ woken' = FALSE
            /\ UNCHANGED <<pc, ipAddr, trace>>
  /\ UNCHANGED <<attempts, link, waited, sock, peer, delivered, size>>

\* main.rs:150-168: main is polled while suspended in wait_config_up.  With
\* the configuration up it returns and runs on, without suspending, to the
\* socket connect; otherwise it stays pending until woken again.
PollConfigUp ==
  /\ pc = "wait_config_up"
  /\ woken
  /\ IF is_config_up(link)
       THEN /\ ipAddr' = config_v4(link)
            /\ trace' = trace \o <<Ok("wait_config_up", 0),
                                   AddressLine(config_v4(link)),
                                   Log("Stack IP Configuration", config_v4(link)),
                                   Log("Connected to Wi-Fi, starting main loop...", 0),
                                   Op("connect", 80)>>
            /\ pc' = "sock_connect"
            /\ woken' = FALSE
       ELSE /\ woken' = FALSE
            /\ UNCHANGED <<pc, ipAddr, trace>>
  /\ UNCHANGED <<attempts, link, waited, sock, peer, delivered, size>>

\* net_task (main.rs:367-370): stack.run() drives DHCP while main waits; a
\* change of the configuration signals main's waker.
LinkNext(l) ==
  IF l = Down THEN {Acquiring}
  ELSE IF l = Acquiring THEN {Up(a) : a \in Addrs} \cup {Down}
  ELSE {Down}

NetTaskLink ==
  /\ pc = "wait_config_up"
  /\ link' \in LinkNext(link)
  /\ woken' = TRUE
  /\ UNCHANGED <<pc, attempts, waited, ipAddr, sock, peer, delivered, size, trace>>

\* Time passing while main is suspended in wait_config_up (main.rs:150).
Tick ==
  /\ pc = "wait_config_up"
  /\ waited < MaxWait
  /\ waited' = waited + 1
  /\ UNCHANGED <<pc, attempts, link, woken, ipAddr, sock, peer, delivered, size, trace>>

\* ------------------------------------------------------------- the exchange

\* SockConnectDone that tries the connect again when it failed.
SockConnectRetry(ok) ==
  /\ pc = "sock_connect"
  /\ IF ok
       THEN /\ sock' = "established"
            /\ trace' = trace \o <<Ok("connect", 0), Op("write", RequestLen)>>
            /\ pc' = "sock_write"
       ELSE /\ sock' = "closed"
            /\ trace' = trace \o <<Err("connect", 0), Log("Failed to open socket", 0),
                                   Op("connect", 80)>>
            /\ pc' = "sock_connect"
  /\ UNCHANGED <<attempts, link, woken, waited, ipAddr, peer, delivered, size>>

\* main.rs:168-172: socket.connect returned; its error is printed and the
\* code runs on to socket.write.
SockConnectDone(ok) ==
  /\ pc = "sock_connect"
  /\ IF ok
       THEN /\ sock' = "established"
            /\ trace' = trace \o <<Ok("connect", 0), Op("write", RequestLen)>>
       ELSE /\ sock' = "closed"
            /\ trace' = trace \o <<Err("connect", 0), Log("Failed to open socket", 0),
                                   Op("write", RequestLen)>>
  /\ pc' = "sock_write"
  /\ UNCHANGED <<attempts, link, woken, waited, ipAddr, peer, delivered, size>>

\* TcpSocket::write on a connected socket copies what fits into the empty
\* transmit buffer (main.rs:163, 172).
write_len(n) == Min(n, TxBufferLen)

\* main.rs:172-176: socket.write returned: Ok(n) on a connected socket,
\* Err on a socket that is not connected; the code runs on to socket.flush.
SockWriteDone ==
  /\ pc = "sock_write"
  /\ IF sock = "established"
       THEN trace' = trace \o <<Ok("write", write_len(RequestLen)), Op("flush", 0)>>
       ELSE trace' = trace \o <<Err("write", 0), Log("Failed to write to socket", 0),
                                Op("flush", 0)>>
  /\ pc' = "sock_flush"
  /\ UNCHANGED <<attempts, link, woken, waited, ipAddr, sock, peer, delivered, size>>

\* main.rs:176-182: socket.flush returned; its error is printed and the code
\* runs on to socket.read.  A flush that fails on a connected socket leaves
\* the connection reset.
SockFlushDone(ok) ==
  /\ pc = "sock_flush"
  /\ IF ok
       THEN /\ trace' = trace \o <<Ok("flush", 0), Op("read", ResponseLen)>>
            /\ sock' = sock
       ELSE /\ trace' = trace \o <<Err("flush", 0), Log("Failed to flush socket", 0),
                                   Op("read", ResponseLen)>>
            /\ sock' = IF sock = "established" THEN "reset" ELSE sock
  /\ pc' = "sock_read"
  /\ UNCHANGED <<attempts, link, woken, waited, ipAddr, peer, delivered, size>>

\* The peer answers over the connection and net_task receives the first
\* segment into rx_buffer while main is suspended in socket.read.
PeerRespond(p, s) ==
  /\ pc = "sock_read"
  /\ sock = "established"
  /\ peer = NoPeer
  /\ peer' = [pat |-> p, segs |-> s]
  /\ delivered' = 1
  /\ UNCHANGED <<pc, attempts, link, woken, waited, ipAddr, sock, size, trace>>

\* net_task receives the next segment of the response.
Deliver ==
  /\ pc = "sock_read"
  /\ sock = "established"
  /\ peer # NoPeer
  /\ delivered < Len(peer.segs)
  /\ delivered' = delivered + 1
  /\ UNCHANGED <<pc, attempts, link, woken, waited, ipAddr, sock, peer, size, trace>>

\* The peer closes its side without sending a response.  (A FIN that follows
\* data leaves the data buffered, and the read returns the data as if the
\* connection were still open, so only the empty case is a separate one.)
PeerClose ==
  /\ pc = "sock_read"
  /\ sock = "established"
  /\ peer = NoPeer
  /\ sock' = "fin"
  /\ UNCHANGED <<pc, attempts, link, woken, waited, ipAddr, peer, delivered, size, trace>>

\* The connection is reset while main is suspended in socket.read, before
\* any data arrived (with data buffered the read returns the data).
PeerReset ==
  /\ pc = "sock_read"
  /\ sock = "established"
  /\ peer = NoPeer
  /\ sock' = "reset"
  /\ UNCHANGED <<pc, attempts, link, woken, waited, ipAddr, peer, delivered, size, trace>>

\* read_len without the limit of the destination buffer.
read_len_unbounded(avail, cap) == avail

\* TcpSocket::read(&mut response) with avail bytes buffered: the bytes copied
\* into a buffer of cap bytes (main.rs:181-182).
read_len(avail, cap) == Min(avail, cap)

\* The slice handed to from_utf8: &response[..size] (main.rs:183).
decoded_len(sz) == sz

\* AfterRead that closes the socket only when the bytes decoded.
AfterReadNoCloseOnInvalid(sz) ==
  IF from_utf8(decoded_len(sz), sz)
    THEN <<Ok("read", sz), Log("response", decoded_len(sz)), Op("close", 0)>>
    ELSE <<Ok("read", sz)>>

\* main.rs:183-188: the read returned Ok(sz); the text is printed when the
\* bytes decode, nothing is printed otherwise; then socket.close().
AfterRead(sz) ==
  IF from_utf8(decoded_len(sz), sz)
    THEN <<Ok("read", sz), Log("response", decoded_len(sz)), Op("close", 0)>>
    ELSE <<Ok("read", sz), Op("close", 0)>>

\* main.rs:182-188: socket.read returns.  With bytes buffered it returns at
\* once what fits; with none it returns Ok(0) once the peer has closed and
\* Err once the socket is not connected; otherwise main stays suspended.
SockReadDone ==
  /\ pc = "sock_read"
  /\ IF RxLen > 0
       THEN /\ size' = read_len(RxLen, ResponseLen)
            /\ trace' = trace \o AfterRead(read_len(RxLen, ResponseLen))
       ELSE IF sock = "fin"
       THEN /\ size' = 0
            /\ trace' = trace \o AfterRead(0)
       ELSE /\ sock \in {"closed", "reset"}
            /\ size' = -1
            /\ trace' = trace \o <<Err("read", 0), Op("close", 0)>>
  /\ pc' = "done"
  /\ UNCHANGED <<attempts, link, woken, waited, ipAddr, sock, peer, delivered>>

\* ------------------------------------------------------------- specification

Next ==
  \/ StartLoop
  \/ \E q \in {"true", "false", "error"} : ConnectOk(q)
  \/ ConnectErr
  \/ RetryElapsed
  \/ PollConfigUp
  \/ NetTaskLink
  \/ Tick
  \/ \E ok \in BOOLEAN : SockConnectDone(ok)
  \/ SockWriteDone
  \/ \E ok \in BOOLEAN : SockFlushDone(ok)
  \/ \E p \in 1..Len(Patterns), s \in Segmentations : PeerRespond(p, s)
  \/ Deliver
  \/ PeerClose
  \/ PeerReset
  \/ SockReadDone

Spec == Init /\ [][Next]_vars

\* The steps of the association loop: the completion of an association
\* request or of a retry delay, and the entry into the loop.
AssocStep ==
  \/ StartLoop
  \/ \E q \in {"true", "false", "error"} : ConnectOk(q)
  \/ ConnectErr
  \/ RetryElapsed

\* The executor runs main whenever the await it is suspended at in the
\* association loop (main.rs:111, 132) has completed.
FairSpec == Spec /\ WF_vars(AssocStep)

\* ------------------------------------------------------------------ claims

\* Indices of the trace entries of one kind and name.
At(kind, name) == {i \in DOMAIN trace : trace[i][1] = kind /\ trace[i][2] = name}
Count(kind, name) == Cardinality(At(kind, name))

\* The state of the association loop (spec 4.1), read off main's position.
AssocState ==
  IF pc = "start" THEN "Idle"
  ELSE IF pc = "connecting" THEN "Connecting"
  ELSE IF pc = "retry_wait" THEN "RetryWait"
  ELSE IF pc = "exhausted" THEN "Exhausted"
  ELSE "Connected"

IsAssocResult(e) == e[2] = "assoc_request" /\ e[1] \in {"ok", "err"}
AssocResults == SelectSeq(trace, IsAssocResult)

\* The first k association requests failed and request k+1 succeeded.
FailsThenSuccess(k) ==
  /\ Len(AssocResults) = k + 1
  /\ \A i \in 1..k : AssocResults[i][1] = "err"
  /\ AssocResults[k + 1][1] = "ok"

\* All of the first n association requests failed, and there were no more.
AllFail(n) ==
  /\ Len(AssocResults) = n
  /\ \A i \in 1..n : AssocResults[i][1] = "err"

\* C1: whenever the first k < CONNECT_ATTEMPTS association requests failed
\* and request k+1 succeeded, the loop has ended as Connected with exactly
\* k+1 requests issued and exactly k retry delays waited.
C1_ConnectedAfterKFailures ==
  \A k \in 0..(CONNECT_ATTEMPTS - 1) :
    FailsThenSuccess(k) =>
      /\ AssocState = "Connected"
      /\ Count("op", "assoc_request") = k + 1
      /\ Count("op", "retry_delay") = k

C1_Witness ==
  /\ FailsThenSuccess(CONNECT_ATTEMPTS - 1)
  /\ AssocState = "Connected"
  /\ Count("op", "retry_delay") = CONNECT_ATTEMPTS - 1

\* C2: the loop ends as Exhausted exactly when CONNECT_ATTEMPTS requests
\* have failed; then exactly CONNECT_ATTEMPTS requests were issued and
\* CONNECT_ATTEMPTS - 1 retry delays waited, each delay before the last
\* failure.
C2_ExhaustedAfterNFailures ==
  /\ AllFail(CONNECT_ATTEMPTS) =>
       /\ AssocState = "Exhausted"
       /\ Count("op", "assoc_request") = CONNECT_ATTEMPTS
       /\ Count("op", "retry_delay") = CONNECT_ATTEMPTS - 1
       /\ \A d \in At("op", "retry_delay"), e \in At("err", "assoc_request") :
            trace[e][3] = CONNECT_ATTEMPTS => d < e
  /\ AssocState = "Exhausted" => AllFail(CONNECT_ATTEMPTS)

C2_Witness ==
  /\ AllFail(CONNECT_ATTEMPTS)
  /\ AssocState = "Exhausted"
  /\ Count("op", "retry_delay") = CONNECT_ATTEMPTS - 1

\* C3: every transport connect in the trace is preceded by the return of
\* wait_config_up with the stack's configuration up, i.e. by the return
\* followed by the line reporting the leased address.
C3_ConnectAfterAddress ==
  \A i \in At("op", "connect") :
    /\ ipAddr \in Addrs
    /\ \E j \in 1..(i - 1) :
         /\ trace[j] = Ok("wait_config_up", 0)
         /\ trace[j + 1] = Log("IP Address", ipAddr)

C3_Witness ==
  /\ pc = "sock_connect"
  /\ At("op", "connect") # {}
  /\ link = Up(ipAddr)

\* Trace entries that issue an operation on the socket.
IsSessionOp(e, names) == e[1] = "op" /\ e[2] \in names

\* C4: every write issued on the transport is preceded by a TLS handshake
\* that completed successfully, and nothing of the session is issued after a
\* failed handshake.
C4_HandshakeBeforeWrite ==
  /\ \A i \in At("op", "write") :
       \E j \in 1..(i - 1) : trace[j] = Ok("tls_handshake", 0)
  /\ \A i \in At("err", "tls_handshake") :
       \A j \in (i + 1)..Len(trace) :
         ~IsSessionOp(trace[j], {"write", "flush", "read"})

\* C5: after a failed transport connect no handshake, write, flush or read
\* is issued and the connect is not issued again.
C5_ConnectFailureIsFatal ==
  \A i \in At("err", "connect") :
    \A j \in (i + 1)..Len(trace) :
      ~IsSessionOp(trace[j], {"connect", "tls_handshake", "write", "flush", "read"})

\* C6: no flush or read is issued after a failed write, no read after a
\* failed flush, and a read is issued only after the whole request was
\* written and flushed.
C6_WriteFlushFailureIsFatal ==
  /\ \A i \in At("err", "write") :
       \A j \in (i + 1)..Len(trace) : ~IsSessionOp(trace[j], {"flush", "read"})
  /\ \A i \in At("err", "flush") :
       \A j \in (i + 1)..Len(trace) : ~IsSessionOp(trace[j], {"read"})
  /\ \A i \in At("op", "read") :
       /\ \E j \in 1..(i - 1) : trace[j] = Ok("write", RequestLen)
       /\ \E j \in 1..(i - 1) : trace[j] = Ok("flush", 0)

\* C7: the address wait never lasts beyond the total timeout: main is never
\* found suspended in it, nor past it, with more than TotalTimeout elapsed.
C7_WaitWithinTimeout == waited <= TotalTimeout

\* C8: a poll of the address wait that finds the link state Up(address)
\* returns at that poll, whatever time has passed, and the address reported
\* is the one the stack holds.
C8_ReturnsAtFirstUp ==
  [][ (pc = "wait_config_up" /\ woken /\ ~woken' /\ IsUp(link)) =>
        /\ pc' = "sock_connect"
        /\ ipAddr' = link.addr
        /\ \E i \in DOMAIN trace' : trace'[i] = Log("IP Address", link.addr) ]_vars

C8_Witness ==
  /\ pc = "sock_connect"
  /\ waited = 0
  /\ ipAddr \in Addrs
  /\ link = Up(ipAddr)

\* Bytes of the response the peer sends in all.
PeerSent == SumTo(peer.segs, Len(peer.segs))

\* The text printed, if any, has exactly the length the read reported.
DecodesWhatWasRead ==
  \A i \in At("log", "response") : trace[i][3] = size

\* C9 as stated: the reported length never exceeds the capacity, a peer
\* that sends more than the capacity makes the read report exactly the
\* capacity without error, and only the bytes read are decoded.
C9_Original ==
  /\ size <= ResponseLen
  /\ (pc = "done" /\ PeerSent > ResponseLen) => size = ResponseLen
  /\ DecodesWhatWasRead

\* C9, amended: the reported length never exceeds the capacity; when more
\* than the capacity is buffered in the socket as the read returns, the read
\* reports exactly the capacity without error; only the bytes read are
\* decoded.
C9_Truncation ==
  /\ size <= ResponseLen
  /\ (pc = "done" /\ RxLen > ResponseLen) =>
       /\ size = ResponseLen
       /\ At("err", "read") = {}
       /\ \E i \in DOMAIN trace : trace[i] = Ok("read", ResponseLen)
  /\ DecodesWhatWasRead

C9_Witness ==
  /\ pc = "done"
  /\ RxLen > ResponseLen
  /\ size = ResponseLen
  /\ \E i \in DOMAIN trace : trace[i] = Log("response", ResponseLen)

\* C10: when the bytes read are not valid text, no response text is printed
\* and the exchange ends in a decode error.
C10_InvalidTextIsError ==
  (pc = "done" /\ size >= 0 /\ ~from_utf8(size, size)) =>
    /\ At("log", "response") = {}
    /\ At("err", "decode") # {}

\* C11: the phases come in the order association success, spawn of
\* net_task, address wait, session, end: net_task is spawned at most once,
\* exactly once when association has succeeded, after the successful
\* request and before the address wait starts; the transport connect comes
\* after the return of the wait, and the close of the socket ends the run.
C11_PhaseOrder ==
  /\ Count("op", "spawn_net_task") <= 1
  /\ AssocState = "Connected" <=> Count("op", "spawn_net_task") = 1
  /\ \A n \in At("op", "spawn_net_task") :
       \E a \in At("ok", "assoc_request") : a < n
  /\ \A w \in At("op", "wait_config_up") :
       \E n \in At("op", "spawn_net_task") : n < w
  /\ \A c \in At("op", "connect") :
       \E w \in At("ok", "wait_config_up") : w < c
  /\ \A c \in At("op", "close") :
       /\ c = Len(trace)
       /\ \E r \in At("op", "read") : r < c
  /\ pc = "done" <=> At("op", "close") # {}

C11_Witness ==
  /\ pc = "done"
  /\ Count("op", "spawn_net_task") = 1
  /\ delivered > 0
  /\ At("log", "response") # {}

\* C12: once CONNECT_ATTEMPTS requests have failed nothing more happens:
\* no further request, no spawn of net_task, no address wait, no transport
\* connect; the report of the exhaustion is the last entry of the trace.
C12_ExhaustionIsFatal ==
  AllFail(CONNECT_ATTEMPTS) =>
    /\ Count("op", "assoc_request") = CONNECT_ATTEMPTS
    /\ At("op", "spawn_net_task") = {}
    /\ At("op", "wait_config_up") = {}
    /\ At("op", "connect") = {}
    /\ trace[Len(trace)] = Log("Failed to connect to Wi-Fi after attempts.", CONNECT_ATTEMPTS)
    /\ ~ENABLED Next

C12_Witness ==
  /\ pc = "exhausted"
  /\ AllFail(CONNECT_ATTEMPTS)
  /\ At("op", "spawn_net_task") = {}

\* C13: every failure is followed by a line that reports it: each Err
\* result in the trace is followed at once by a printed line, and bytes that
\* do not decode are followed by a printed line too.
C13_EveryFailureReported ==
  /\ \A i \in DOMAIN trace :
       trace[i][1] = "err" => (i < Len(trace) /\ trace[i + 1][1] = "log")
  /\ (pc = "done" /\ size >= 0 /\ ~from_utf8(size, size)) =>
       \A i \in At("ok", "read") : trace[i + 1][1] = "log"

\* Progress notices printed by the address wait.
Notices == Count("log", "Still waiting for address")

\* C14: with total timeout 90000 ms and log interval 30000 ms (clock ticks
\* of 30000 ms) and no address, no notice is printed before the first
\* tick, the notices of 30000 ms and 60000 ms are there by the next tick, at
\* most 3 are printed, and past the timeout the wait has returned TimedOut.
C14_ProgressNotices ==
  /\ Notices <= 3
  /\ waited = 0 => Notices = 0
  /\ (pc = "wait_config_up" /\ waited >= 2) => Notices >= 1
  /\ (pc = "wait_config_up" /\ waited >= 3) => Notices >= 2
  /\ waited > TotalTimeout => At("err", "wait_config_up") # {}

\* C15: a successful association request ends the loop as Connected
\* whatever the status query returns: the request's Ok is followed by one of
\* the three status lines and then by the spawn of net_task, and no request
\* or retry delay is issued after it.
C15_ConnectedByRequestAlone ==
  \A i \in At("ok", "assoc_request") :
    /\ AssocState = "Connected"
    /\ trace[i + 1] \in {StatusLine("true"), StatusLine("false"), StatusLine("error")}
    /\ trace[i + 2] = Op("spawn_net_task", 0)
    /\ \A j \in (i + 1)..Len(trace) :
         ~IsSessionOp(trace[j], {"assoc_request", "retry_delay"})

C15_Witness ==
  /\ AssocState = "Connected"
  /\ \E i \in At("ok", "assoc_request") : trace[i + 1] = StatusLine("false")
  /\ pc = "done"

\* C16: the transport connect, write, flush and read are each issued at most
\* once in a run, whether they fail or not.
C16_SingleShot ==
  \A name \in {"connect", "write", "flush", "read"} : Count("op", name) <= 1

C16_Witness ==
  /\ pc = "done"
  /\ At("err", "connect") # {}
  /\ At("err", "read") # {}
  /\ \A name \in {"connect", "write", "flush", "read"} : Count("op", name) = 1

\* The transitions of the association state machine (spec 4.1).
AssocTransitions ==
  { <<"Idle", "Connecting">>, <<"Connecting", "Connected">>,
    <<"Connecting", "RetryWait">>, <<"RetryWait", "Connecting">>,
    <<"Connecting", "Exhausted">> }

\* C17: the association state changes only along Idle->Connecting,
\* Connecting->Connected, Connecting->RetryWait, RetryWait->Connecting and
\* Connecting->Exhausted, a request is issued only on entering Connecting,
\* and, requests and retry delays completing, the loop eventually is
\* Connected or Exhausted.
C17_StateMachine ==
  /\ [][ /\ AssocState' # AssocState => <<AssocState, AssocState'>> \in AssocTransitions
         /\ At("op", "assoc_request")' # At("op", "assoc_request") =>
              (AssocState \in {"Idle", "RetryWait"} /\ AssocState' = "Connecting") ]_vars
  /\ <>(AssocState \in {"Connected", "Exhausted"})

C17_Witness ==
  /\ AssocState = "Connected"
  /\ pc = "wait_config_up"
  /\ attempts = CONNECT_ATTEMPTS
  /\ Count("op", "retry_delay") = CONNECT_ATTEMPTS - 1

\* C18: the attempt counter equals the number of association requests
\* issued, each request is issued with the counter between 1 and
\* CONNECT_ATTEMPTS, and a step leaves the counter alone or adds one to it.
C18_AttemptCounter ==
  /\ [](/\ attempts = Count("op", "assoc_request")
        /\ \A i \in At("op", "assoc_request") :
             trace[i][3] >= 1 /\ trace[i][3] <= CONNECT_ATTEMPTS
        /\ \A i, j \in At("op", "assoc_request") :
             i < j => trace[i][3] < trace[j][3])
  /\ [][attempts' = attempts \/ attempts' = attempts + 1]_vars

C18_Witness ==
  /\ pc = "connecting"
  /\ attempts = CONNECT_ATTEMPTS
  /\ Count("op", "assoc_request") = CONNECT_ATTEMPTS

\* C19: the socket is closed at most once, exactly once when main has
\* ended after the session, after the read returned, also when connect,
\* write, flush, read or decode failed; nothing follows the close.
C19_ClosedOnce ==
  /\ Count("op", "close") <= 1
  /\ pc = "done" => Count("op", "close") = 1
  /\ \A c \in At("op", "close") :
       /\ c = Len(trace)
       /\ \E r \in At("ok", "read") \cup At("err", "read") : r < c
       /\ ~ENABLED Next

C19_Witness ==
  /\ pc = "done"
  /\ size >= 0
  /\ ~from_utf8(size, size)
  /\ trace[Len(trace)] = Op("close", 0)

====
